---- MODULE Spec2Model ----
(***************************************************************************)
(* Model of lab3.cpp: the Bank registry of Depositors, the two deposit     *)
(* strategies, the amount validation and the menu loop of main().          *)
(*                                                                         *)
(* Amounts are C++ doubles in the source; they are modelled as integers    *)
(* (whole currency units).  Exceptions are modelled as a field "exc" of    *)
(* the record an operator returns: "none" when the call returned.          *)
(***************************************************************************)
EXTENDS Integers, Sequences, FiniteSets, TLC

VARIABLES depositors, call, outcome, pc

vars == <<depositors, call, outcome, pc>>

(* ------------------------------ bounds -------------------------------- *)
MaxAccounts == 2
NumIds == 2
BalanceCap == 500

(* ------------------------- program constants -------------------------- *)
FixedLimit == 1000000
FixedBonus == 100
IdMin == 100000

\* the depositors registered: a name and the strategy chosen with it
Customers ==
    { [name |-> "Alice", strategy |-> "NormalDeposit"],
      [name |-> "Bob", strategy |-> "FixedDeposit"] }
Amounts == {-1, 0, 500, FixedLimit, FixedLimit + 1}

TooLargeMsg == "The maximum deposit amount for the fixed account is 1,000,000. Please deposit less."
NegativeMsg == "Deposit amount cannot be negative"
NoDepositsMsg == "No deposits have been made yet."
NoDepositorsMsg == "No depositors were added."
ExitMsg == "Exiting program."
InvalidChoiceMsg == "Invalid choice. Please try again."

(* --------------------------- ID generator ----------------------------- *)
\* the strings generateRandomID can return: "PZ" followed by the number drawn
generateRandomID == { "PZ" \o ToString(n) : n \in IdMin..(IdMin + NumIds - 1) }

\* identifiers a caller may type: the ones that can exist and one that cannot
LookupIDs == generateRandomID \cup {"PZ000000"}

(* ---------------------------- strategies ------------------------------ *)
FixedDeposit_calculateDeposit_NoBonus(amount) ==
    IF amount > FixedLimit
    THEN [exc |-> "InvalidInputException", what |-> TooLargeMsg, val |-> 0]
    ELSE [exc |-> "none", what |-> "", val |-> amount]

FixedDeposit_calculateDeposit(amount) ==
    IF amount > FixedLimit
    THEN [exc |-> "InvalidInputException", what |-> TooLargeMsg, val |-> 0]
    ELSE [exc |-> "none", what |-> "", val |-> amount + FixedBonus]

NormalDeposit_calculateDeposit(amount) ==
    [exc |-> "none", what |-> "", val |-> amount]

\* virtual dispatch of IDeposit::calculateDeposit
calculateDeposit(strategy, amount) ==
    IF strategy = "FixedDeposit"
    THEN FixedDeposit_calculateDeposit(amount)
    ELSE NormalDeposit_calculateDeposit(amount)

(* ---------------------------- validation ------------------------------ *)
validateDepositAmount_NoCheck(amount) ==
    [exc |-> "none", what |-> ""]

validateDepositAmount_RejectsZero(amount) ==
    IF amount <= 0
    THEN [exc |-> "NegativeDepositException", what |-> NegativeMsg]
    ELSE [exc |-> "none", what |-> ""]

validateDepositAmount(amount) ==
    IF amount < 0
    THEN [exc |-> "NegativeDepositException", what |-> NegativeMsg]
    ELSE [exc |-> "none", what |-> ""]

(* ----------------------------- Depositor ------------------------------ *)
Depositor(id, name, amount, strategy) ==
    [depositorID |-> id, name |-> name, amount |-> amount, depositStrategy |-> strategy]

getDepositAmount_Raw(d) ==
    [exc |-> "none", what |-> "", val |-> d.amount]

getDepositAmount(d) ==
    calculateDeposit(d.depositStrategy, d.amount)

\* Depositor::deposit: validate, then add the strategy's result to amount
deposit(d, amount) ==
    LET v == validateDepositAmount(amount) IN
    IF v.exc # "none"
    THEN [exc |-> v.exc, what |-> v.what, d |-> d]
    ELSE LET c == calculateDeposit(d.depositStrategy, amount) IN
         IF c.exc # "none"
         THEN [exc |-> c.exc, what |-> c.what, d |-> d]
         ELSE [exc |-> "none", what |-> "", d |-> [d EXCEPT !.amount = d.amount + c.val]]

(* -------------------------------- Bank -------------------------------- *)
addDepositor_Prepend(deps, id, name, strategy) ==
    <<Depositor(id, name, 0, strategy)>> \o deps

addDepositor(deps, id, name, strategy) ==
    Append(deps, Depositor(id, name, 0, strategy))

\* result of a Bank call: the registry afterwards, whether the call returned,
\* its return value, the exception that left it, and what it wrote
Result(deps, returned, ret, exc, what, cerr, cout, total) ==
    [depositors |-> deps, returned |-> returned, ret |-> ret, exc |-> exc,
     what |-> what, cerr |-> cerr, cout |-> cout, total |-> total]

RECURSIVE depositScan(_, _, _, _)
depositScan(deps, i, depositorID, amount) ==
    IF i > Len(deps)
    THEN Result(deps, TRUE, FALSE, "none", "", "", "", 0)
    ELSE IF deps[i].depositorID = depositorID
         THEN LET r == deposit(deps[i], amount) IN
              IF r.exc = "none"
              THEN Result([deps EXCEPT ![i] = r.d], TRUE, TRUE, "none", "", "", "Deposit made", 0)
              ELSE IF r.exc = "InvalidInputException"
                   THEN Result(deps, TRUE, TRUE, "none", "", r.what, "", 0)
                   ELSE Result(deps, FALSE, FALSE, r.exc, r.what, "", "", 0)
         ELSE depositScan(deps, i + 1, depositorID, amount)

depositToAccount_AlwaysFound(deps, depositorID, amount) ==
    [depositScan(deps, 1, depositorID, amount) EXCEPT !.ret = TRUE]

depositToAccount(deps, depositorID, amount) ==
    depositScan(deps, 1, depositorID, amount)

RECURSIVE totalScan(_, _, _)
totalScan(deps, i, total) ==
    IF i > Len(deps)
    THEN Result(deps, TRUE, FALSE, "none", "", "", "", total)
    ELSE LET g == getDepositAmount(deps[i]) IN
         IF g.exc # "none"
         THEN Result(deps, FALSE, FALSE, g.exc, g.what, "", "", 0)
         ELSE totalScan(deps, i + 1, total + g.val)

calculateTotalDeposits(deps) ==
    totalScan(deps, 1, 0)

RECURSIVE listScan(_, _)
listScan(deps, i) ==
    IF i > Len(deps)
    THEN Result(deps, TRUE, FALSE, "none", "", "", "List of depositors", 0)
    ELSE LET g == getDepositAmount(deps[i]) IN
         IF g.exc # "none"
         THEN Result(deps, FALSE, FALSE, g.exc, g.what, "", "List of depositors", 0)
         ELSE listScan(deps, i + 1)

listDepositors(deps) ==
    IF Len(deps) = 0
    THEN Result(deps, TRUE, FALSE, "none", "", "", NoDepositorsMsg, 0)
    ELSE listScan(deps, 1)

(* ------------------- the Bank driven by any caller -------------------- *)
Call(op, id, name, strategy, amount) ==
    [op |-> op, depositorID |-> id, name |-> name, strategy |-> strategy, amount |-> amount]

Outcome(r) ==
    [returned |-> r.returned, ret |-> r.ret, exc |-> r.exc, what |-> r.what,
     cerr |-> r.cerr, cout |-> r.cout, total |-> r.total]

NoCall == Call("none", "", "", "", 0)
NoOutcome == Outcome(Result(<<>>, TRUE, FALSE, "none", "", "", "", 0))

Init ==
    /\ depositors = <<>>
    /\ call = NoCall
    /\ outcome = NoOutcome
    /\ pc = "caller"

\* the deposits explored: one that changes a balance finds the raw balances
\* of the registry summing to BalanceCap at most
RECURSIVE RawSum(_)
RawSum(deps) ==
    IF Len(deps) = 0 THEN 0 ELSE Head(deps).amount + RawSum(Tail(deps))

DepositBound(deps, depositorID, amount) ==
    depositToAccount(deps, depositorID, amount).depositors # deps
        => RawSum(deps) <= BalanceCap

AddDepositorCall ==
    /\ pc = "caller"
    /\ Len(depositors) < MaxAccounts
    /\ \E id \in generateRandomID, c \in Customers :
          /\ depositors' = addDepositor(depositors, id, c.name, c.strategy)
          /\ call' = Call("addDepositor", id, c.name, c.strategy, 0)
          /\ outcome' = [NoOutcome EXCEPT !.cout = "Depositor added successfully"]
    /\ UNCHANGED pc

DepositToAccountCall ==
    /\ pc = "caller"
    /\ \E id \in LookupIDs, amount \in Amounts :
          /\ DepositBound(depositors, id, amount)
          /\ LET r == depositToAccount(depositors, id, amount) IN
                /\ depositors' = r.depositors
                /\ call' = Call("depositToAccount", id, "", "", amount)
                /\ outcome' = Outcome(r)
    /\ UNCHANGED pc

CalculateTotalDepositsCall ==
    /\ pc = "caller"
    /\ LET r == calculateTotalDeposits(depositors) IN
          /\ depositors' = r.depositors
          /\ call' = Call("calculateTotalDeposits", "", "", "", 0)
          /\ outcome' = Outcome(r)
    /\ UNCHANGED pc

ListDepositorsCall ==
    /\ pc = "caller"
    /\ LET r == listDepositors(depositors) IN
          /\ depositors' = r.depositors
          /\ call' = Call("listDepositors", "", "", "", 0)
          /\ outcome' = Outcome(r)
    /\ UNCHANGED pc

Next ==
    \/ AddDepositorCall
    \/ DepositToAccountCall
    \/ CalculateTotalDepositsCall
    \/ ListDepositorsCall

Spec == Init /\ [][Next]_vars

(* ------------------------------- main() ------------------------------- *)
\* pc = "menu": main reads the next choice; pc = "amount": choice 4 has read
\* the depositor ID and getValidDepositAmount prompts; pc = "terminated":
\* main has left the while loop (choice 5, or one of its two catch clauses)
MainInit ==
    /\ depositors = <<>>
    /\ call = NoCall
    /\ outcome = NoOutcome
    /\ pc = "menu"

\* the two catch clauses after main's while loop: an exception leaving a
\* Bank call is printed as "Error: what()" and main returns
mainCatch(r) ==
    IF r.exc = "none"
    THEN [pc |-> "menu", outcome |-> Outcome(r)]
    ELSE [pc |-> "terminated", outcome |-> [Outcome(r) EXCEPT !.cerr = r.what]]

\* getValidDepositAmount: one pass of its loop on the number typed
getValidDepositAmount(amount) ==
    IF amount >= 0
    THEN [valid |-> TRUE, cerr |-> ""]
    ELSE [valid |-> FALSE, cerr |-> "Amount cannot be negative. Please try again."]

\* choice "3": the total, or the message when it is zero
viewTotal(deps) ==
    LET r == calculateTotalDeposits(deps) IN
    IF r.exc # "none"
    THEN r
    ELSE IF r.total = 0
         THEN [r EXCEPT !.cout = NoDepositsMsg]
         ELSE [r EXCEPT !.cout = "Total deposits"]

MainAddDepositor ==
    /\ pc = "menu"
    /\ Len(depositors) < MaxAccounts
    /\ \E id \in generateRandomID, c \in Customers :
          /\ depositors' = addDepositor(depositors, id, c.name, c.strategy)
          /\ call' = Call("addDepositor", id, c.name, c.strategy, 0)
          /\ outcome' = [NoOutcome EXCEPT !.cout = "Depositor added successfully"]
    /\ UNCHANGED pc

MainListDepositors ==
    /\ pc = "menu"
    /\ LET m == mainCatch(listDepositors(depositors)) IN
          /\ call' = Call("listDepositors", "", "", "", 0)
          /\ outcome' = m.outcome
          /\ pc' = m.pc
    /\ UNCHANGED depositors

MainViewTotal ==
    /\ pc = "menu"
    /\ LET m == mainCatch(viewTotal(depositors)) IN
          /\ call' = Call("calculateTotalDeposits", "", "", "", 0)
          /\ outcome' = m.outcome
          /\ pc' = m.pc
    /\ UNCHANGED depositors

MainDepositID ==
    /\ pc = "menu"
    /\ \E id \in LookupIDs :
          call' = Call("readDepositorID", id, "", "", 0)
    /\ outcome' = NoOutcome
    /\ pc' = "amount"
    /\ UNCHANGED depositors

MainDepositAmount ==
    /\ pc = "amount"
    /\ \E amount \in Amounts :
          /\ DepositBound(depositors, call.depositorID, amount)
          /\ LET g == getValidDepositAmount(amount)
                 r == depositToAccount(depositors, call.depositorID, amount)
                 m == mainCatch(r) IN
             IF ~g.valid
             THEN /\ outcome' = [NoOutcome EXCEPT !.cerr = g.cerr]
                  /\ call' = Call("readDepositorID", call.depositorID, "", "", amount)
                  /\ UNCHANGED <<depositors, pc>>
             ELSE /\ depositors' = r.depositors
                  /\ call' = Call("depositToAccount", call.depositorID, "", "", amount)
                  /\ outcome' = IF r.exc = "none" /\ ~r.ret
                                THEN [m.outcome EXCEPT !.cerr = "No depositor found with the ID"]
                                ELSE m.outcome
                  /\ pc' = m.pc

MainExit ==
    /\ pc = "menu"
    /\ call' = Call("exit", "", "", "", 0)
    /\ outcome' = [NoOutcome EXCEPT !.cout = ExitMsg]
    /\ pc' = "terminated"
    /\ UNCHANGED depositors

MainInvalidChoice ==
    /\ pc = "menu"
    /\ call' = Call("invalid", "", "", "", 0)
    /\ outcome' = [NoOutcome EXCEPT !.cerr = InvalidChoiceMsg]
    /\ UNCHANGED <<depositors, pc>>

MainNext ==
    \/ MainAddDepositor
    \/ MainListDepositors
    \/ MainViewTotal
    \/ MainDepositID
    \/ MainDepositAmount
    \/ MainExit
    \/ MainInvalidChoice

MainSpec == MainInit /\ [][MainNext]_vars

(* ----------------------- helpers of the properties -------------------- *)
Indices(deps) == 1..Len(deps)

Matches(deps, id) == { i \in Indices(deps) : deps[i].depositorID = id }

Balances(deps) == [i \in Indices(deps) |-> deps[i].amount]

Identity(deps) ==
    [i \in Indices(deps) |->
        <<deps[i].depositorID, deps[i].name, deps[i].depositStrategy>>]

IsDepositStep == call'.op = "depositToAccount"

\* the reported balance written out per strategy, and its sum over a registry
Reported(d) == IF d.depositStrategy = "FixedDeposit" THEN d.amount + 100 ELSE d.amount

RECURSIVE ReportedSum(_)
ReportedSum(deps) ==
    IF Len(deps) = 0 THEN 0 ELSE Reported(Head(deps)) + ReportedSum(Tail(deps))

NoRejection(deps) ==
    \A i \in Indices(deps) :
        deps[i].depositStrategy = "FixedDeposit" => deps[i].amount <= 1000000

NumFixed(deps) ==
    Cardinality({ i \in Indices(deps) : deps[i].depositStrategy = "FixedDeposit" })

AllZero(deps) == \A i \in Indices(deps) : deps[i].amount = 0

(* ------------------------------ C1 ------------------------------------ *)
\* C1: a deposit of more than 1,000,000 whose id matches a Fixed account
\* reports the too-large error without propagating it, returns true and
\* leaves every raw balance unchanged.
C1_TooLargeOnFixedHasNoEffect ==
    [][ ( /\ IsDepositStep
          /\ call'.amount > 1000000
          /\ \E i \in Matches(depositors, call'.depositorID) :
                depositors[i].depositStrategy = "FixedDeposit" )
        => ( /\ outcome'.cerr = TooLargeMsg
             /\ outcome'.returned
             /\ outcome'.exc = "none"
             /\ outcome'.ret = TRUE
             /\ Balances(depositors') = Balances(depositors) ) ]_vars

(* ------------------------------ C2 ------------------------------------ *)
\* C2: a deposit whose id matches no account (the empty registry included)
\* returns false and leaves the whole registry as it was.
C2_UnknownIdReturnsFalse ==
    [][ ( IsDepositStep /\ Matches(depositors, call'.depositorID) = {} )
        => ( /\ outcome'.returned
             /\ outcome'.ret = FALSE
             /\ depositors' = depositors ) ]_vars

C2_Witness ==
    /\ call.op = "depositToAccount"
    /\ Len(depositors) > 0
    /\ Matches(depositors, call.depositorID) = {}
    /\ outcome.returned
    /\ outcome.ret = FALSE

(* ------------------------------ C3 ------------------------------------ *)
\* C3: a deposit of a >= 0 (a <= 1,000,000 for a Fixed account) to an account
\* the id matches returns true, raises that account's raw balance by a
\* (Normal) or a + 100 (Fixed), and changes no other account's raw balance.
C3_DepositAddsCalculatedAmount ==
    [][ IsDepositStep =>
        \A i \in Matches(depositors, call'.depositorID) :
            ( /\ call'.amount >= 0
              /\ (depositors[i].depositStrategy = "FixedDeposit" => call'.amount <= 1000000) )
            => ( /\ outcome'.returned
                 /\ outcome'.ret = TRUE
                 /\ depositors'[i].amount = depositors[i].amount +
                       (IF depositors[i].depositStrategy = "FixedDeposit"
                        THEN call'.amount + 100 ELSE call'.amount)
                 /\ \A j \in Indices(depositors) \ {i} :
                       depositors'[j].amount = depositors[j].amount ) ]_vars

(* ------------------------------ C4 ------------------------------------ *)
\* C4: whenever no account's strategy rejects its raw balance, the total is
\* the sum of the reported balances (raw for Normal, raw + 100 for Fixed);
\* with the single account Alice/Normal holding 500 the total is 500.
C4_TotalIsSumOfReported ==
    /\ NoRejection(depositors) =>
          /\ calculateTotalDeposits(depositors).exc = "none"
          /\ calculateTotalDeposits(depositors).total = ReportedSum(depositors)
    /\ (call.op = "calculateTotalDeposits" /\ NoRejection(depositors)) =>
          /\ outcome.returned
          /\ outcome.total = ReportedSum(depositors)
    /\ ( /\ call.op = "calculateTotalDeposits"
         /\ Len(depositors) = 1
         /\ depositors[1].name = "Alice"
         /\ depositors[1].depositStrategy = "NormalDeposit"
         /\ depositors[1].amount = 500 ) => outcome.total = 500

C4_Witness ==
    /\ call.op = "calculateTotalDeposits"
    /\ Len(depositors) = 1
    /\ depositors[1].name = "Alice"
    /\ depositors[1].depositStrategy = "NormalDeposit"
    /\ depositors[1].amount = 500
    /\ outcome.total = 500

(* ------------------------------ C5 ------------------------------------ *)
\* C5: when a command's core operation raised the too-large error, the error
\* is reported and the session goes on to read the next command.
C5_TooLargeNeverEndsSession ==
    (outcome.what = TooLargeMsg \/ outcome.cerr = TooLargeMsg)
        => (outcome.cerr = TooLargeMsg /\ pc # "terminated")

(* ------------------------------ C6 ------------------------------------ *)
\* C6: no two accounts of the registry hold the same identifier.
C6_IdentifiersUnique ==
    \A i, j \in Indices(depositors) :
        i # j => depositors[i].depositorID # depositors[j].depositorID

(* ------------------------------ C7 ------------------------------------ *)
\* C7: an account is created with raw balance 0, and no step of any
\* operation, whatever its arguments, lowers an account's raw balance.
C7_BalanceStartsAtZeroNeverDecreases ==
    [][ /\ \A i \in Indices(depositors) :
              /\ i \in Indices(depositors')
              /\ depositors'[i].amount >= depositors[i].amount
        /\ \A i \in Indices(depositors') \ Indices(depositors) :
              depositors'[i].amount = 0 ]_vars

C7_Witness ==
    /\ call.op = "depositToAccount"
    /\ call.amount < 0
    /\ \E i \in Matches(depositors, call.depositorID) : depositors[i].amount > 0
    /\ outcome.exc = "NegativeDepositException"

(* ------------------------------ C8 ------------------------------------ *)
\* C8: a deposit of a < 0 to a matching id leaves depositToAccount as a
\* NegativeDepositException (no return value) with every raw balance
\* unchanged; no call with a >= 0 raises that exception.
C8_NegativeAmountPropagates ==
    [][ /\ ( /\ IsDepositStep
             /\ call'.amount < 0
             /\ Matches(depositors, call'.depositorID) # {} )
           => ( /\ outcome'.exc = "NegativeDepositException"
                /\ ~outcome'.returned
                /\ Balances(depositors') = Balances(depositors) )
        /\ call'.amount >= 0 => outcome'.exc # "NegativeDepositException" ]_vars

C8_Witness ==
    /\ call.op = "depositToAccount"
    /\ call.amount < 0
    /\ Matches(depositors, call.depositorID) # {}
    /\ outcome.exc = "NegativeDepositException"
    /\ ~outcome.returned

(* ------------------------------ C9 ------------------------------------ *)
\* C9: the number of accounts never decreases; only addDepositor raises it,
\* by exactly one and at the end; identifier, name, strategy and position of
\* every existing account never change.
C9_AppendOnlyImmutableIdentity ==
    [][ /\ Len(depositors') >= Len(depositors)
        /\ Len(depositors') > Len(depositors) => call'.op = "addDepositor"
        /\ call'.op = "addDepositor" =>
              /\ Len(depositors') = Len(depositors) + 1
              /\ depositors'[Len(depositors')].depositorID = call'.depositorID
              /\ depositors'[Len(depositors')].name = call'.name
              /\ depositors'[Len(depositors')].depositStrategy = call'.strategy
        /\ \A i \in Indices(depositors) :
              /\ i \in Indices(depositors')
              /\ Identity(depositors')[i] = Identity(depositors)[i] ]_vars

C9_Witness ==
    /\ call.op = "addDepositor"
    /\ Len(depositors) >= 2
    /\ depositors[1].amount > 0
    /\ Identity(depositors)[1] # Identity(depositors)[2]

(* ------------------------------ C10 ----------------------------------- *)
\* C10: a Fixed account with raw balance 0 reports 100; while every raw
\* balance is 0 the total is 100 times the number of Fixed accounts; the
\* view-total command prints the no-deposits message only when the total is
\* 0, that is with no Fixed account and every raw balance 0.
C10_UntouchedFixedReports100 ==
    /\ \A i \in Indices(depositors) :
          (depositors[i].depositStrategy = "FixedDeposit" /\ depositors[i].amount = 0)
              => getDepositAmount(depositors[i]) = [exc |-> "none", what |-> "", val |-> 100]
    /\ AllZero(depositors) =>
          calculateTotalDeposits(depositors).total = 100 * NumFixed(depositors)
    /\ (call.op = "calculateTotalDeposits" /\ AllZero(depositors)) =>
          outcome.total = 100 * NumFixed(depositors)
    /\ outcome.cout = NoDepositsMsg =>
          /\ call.op = "calculateTotalDeposits"
          /\ outcome.total = 0
          /\ NumFixed(depositors) = 0
          /\ AllZero(depositors)

C10_Witness ==
    /\ call.op = "calculateTotalDeposits"
    /\ NumFixed(depositors) > 0
    /\ AllZero(depositors)
    /\ outcome.total = 100 * NumFixed(depositors)
    /\ outcome.cout = "Total deposits"

====
